---- MODULE Spec2Model ----
(***************************************************************************)
(* FastCloudflare: the tunnel provisioning steps of class Cloudflare       *)
(* (src/src/fastcloudflare/cloudflare_api.py) and the reverse proxy of     *)
(* class Gateway (src/src/fastcloudflare/gateway.py).                      *)
(*                                                                         *)
(* The four provisioning steps are async_cached_property coroutines: the   *)
(* first await runs the body under a per-property lock and stores the      *)
(* returned value; a body that raises stores nothing.  The control-plane   *)
(* API, the cloudflared CLI and the backend are environments: every reply  *)
(* they can give is a nondeterministic choice.                             *)
(***************************************************************************)
EXTENDS Integers, Sequences, FiniteSets, TLC

\* ---------------------------------------------------------------- bounds
NumCallers == 2          \* concurrent tasks that await a provisioning property
MaxRestarts == 1         \* process restarts (the config files survive)
MaxListLen == 2          \* entries in a listing returned by the API

Callers == 1 .. NumCallers

\* the task that runs the start-up sequence
StartupCaller == CHOOSE c \in Callers : \A d \in Callers : c <= d

\* ------------------------------------------------------- names and values
\* Names are sequences of labels: "app.example.com" is <<"app","example","com">>.
Steps == {"tunnel", "connect_server", "dns_record", "cloudflared_thread"}

InfoDomain == <<"app", "example", "com">>

\* cached_property domain_name: domain.split(".")[0]
domain_name == <<InfoDomain[1]>>

\* name = f"{self.domain_name}-tunnel".replace(".", "-")
TunnelName == domain_name \o <<"tunnel">>

NoMeta == [id |-> "", name |-> <<>>, token |-> ""]

\* dataclass Tunnel with its defaults
Tunnel == [name |-> <<>>, id |-> "", token |-> "", meta |-> NoMeta]

\* what the API answers to the create POST with status 200: body["result"]
CreatedResults == {[id |-> "t1", name |-> TunnelName, token |-> "tok1"]}

\* entries the tunnel listing may hold: one with the requested name, one whose
\* name only starts with it
TunnelItems ==
    {[id |-> "t2", name |-> TunnelName, token |-> ""],
     [id |-> "t3", name |-> TunnelName \o <<"old">>, token |-> ""]}

\* entries the DNS listing may hold: one with the domain's name, one whose
\* name only starts with it
DnsItems ==
    {[id |-> "r1", name |-> InfoDomain, token |-> ""],
     [id |-> "r2", name |-> InfoDomain \o <<"net">>, token |-> ""]}

Listings(items) == UNION {[1 .. n -> items] : n \in 0 .. MaxListLen}

TunnelPostStatuses == {200, 409, 500}
PutStatuses == {200, 400, 500}
PatchStatuses == {200, 500}

\* the provider's "record already exists" code tested by dns_record
AlreadyExists == 81053

\* (status, errors[0].code) pairs of the DNS record POST
DnsPostReplies ==
    {<<200, 0>>, <<400, AlreadyExists>>, <<400, 1004>>, <<403, 10000>>}

\* stdout of "cloudflared tunnel token <id>"
CliToken(id) ==
    CASE id = "t2" -> "tok2"
      [] id = "t3" -> "tok3"
      [] OTHER -> "tok"

BackendUrl == "http://localhost:8000"

NoReply == [status |-> 0, code |-> 0, result |-> NoMeta, list |-> <<>>]

NoVal == [kind |-> "unset", tunnel |-> Tunnel, status |-> 0]
NoneVal == [kind |-> "None", tunnel |-> Tunnel, status |-> 0]
TunnelVal(t) == [kind |-> "Tunnel", tunnel |-> t, status |-> 0]
ResponseVal(s) == [kind |-> "Response", tunnel |-> Tunnel, status |-> s]
ThreadVal == [kind |-> "Thread", tunnel |-> Tunnel, status |-> 0]

VARIABLES
    cloudflared_cfg,    \* in-memory CloudflaredCFG: [info, tunnel]
    disk,               \* what cloudflared_cfg.write() last stored
    app_url,            \* getattr(self.app, "url", self.url)
    cloudflare_cfg,     \* whether the attribute read by dns_record resolves
    cache,              \* async_cached_property: step -> [loaded, value]
    lock,               \* async_cached_property: step -> holder (0 = free)
    task,               \* caller -> [pc, target, out, payload, err, at]
    reply,              \* caller -> the reply of the call it awaits
    seen,               \* caller -> step -> the value its await returned
    calls,              \* calls issued by this process, in order
    boot,               \* at process start: [epoch, tunnel, after_failure], the
                        \* Tunnel the run before held and whether it failed
    launch_pc,          \* Gateway.launch position
    glo,                \* what launch read from self.cloudflared_thread
    serving,            \* the gateway's serving thread is started
    thread_pc,          \* the ManagedThread _launcher
    requests            \* request -> [pc, req, sent, backend, response]

vars == <<cloudflared_cfg, disk, app_url, cloudflare_cfg, cache, lock, task,
          reply, seen, calls, boot, launch_pc, glo, serving, thread_pc,
          requests>>

provisionVars == <<cloudflared_cfg, disk, app_url, cloudflare_cfg, cache, lock,
                   task, reply, seen, calls, boot>>
launchVars == <<launch_pc, glo, serving, thread_pc, requests>>

\* ------------------------------------------------------- gateway values
NumRequests == 2         \* requests the gateway receives
MaxHeaders == 2          \* headers in one message

Requests == 1 .. NumRequests

\* str.lower() on the header names of the model
Lower(k) ==
    CASE k = "Host" -> "host"
      [] k = "Content-Length" -> "content-length"
      [] k = "Content-Encoding" -> "content-encoding"
      [] k = "Transfer-Encoding" -> "transfer-encoding"
      [] k = "Connection" -> "connection"
      [] k = "CONNECTION" -> "connection"
      [] k = "Keep-Alive" -> "keep-alive"
      [] k = "Authorization" -> "authorization"
      [] k = "Set-Cookie" -> "set-cookie"
      [] OTHER -> k

HeaderValue(k) ==
    CASE Lower(k) = "host" -> "app.example.com"
      [] Lower(k) = "content-length" -> "42"
      [] Lower(k) = "content-encoding" -> "gzip"
      [] Lower(k) = "transfer-encoding" -> "chunked"
      [] Lower(k) = "connection" -> "close"
      [] Lower(k) = "authorization" -> "Bearer s3"
      [] OTHER -> "v"

\* a header mapping with the names of S
HeadersOf(S) == [k \in S |-> HeaderValue(k)]

SmallSubsets(S) == {T \in SUBSET S : Cardinality(T) <= MaxHeaders}

InboundHeaderNames == {"Host", "content-length", "Authorization", "cookie"}
BackendHeaderNames ==
    {"content-encoding", "Transfer-Encoding", "content-length", "CONNECTION",
     "Set-Cookie"}

NoHeaders == HeadersOf({})

\* what a client may send
InboundRequests ==
    [method : {"GET", "POST"}, path : {"foo", "a/b"},
     headers : {HeadersOf(S) : S \in SmallSubsets(InboundHeaderNames)},
     query : {"", "q=1"}, body : {"data"}]

BackendStatuses == {200, 204, 404, 500}

\* what the backend may answer
BackendResponses ==
    [status : BackendStatuses,
     headers : {HeadersOf(S) : S \in SmallSubsets(BackendHeaderNames)},
     content : {"{path}"}]

\* what self.client.request may raise
TransportErrors == {"ConnectError", "ReadTimeout", "RemoteProtocolError"}

NoInbound ==
    [method |-> "", path |-> "", headers |-> NoHeaders, query |-> "", body |-> ""]
NoSent ==
    [method |-> "", url |-> "", headers |-> NoHeaders, params |-> "",
     content |-> ""]
NoBackend == [status |-> 0, headers |-> NoHeaders, content |-> "", error |-> "none"]
NoResponse ==
    [status |-> 0, headers |-> NoHeaders, media |-> "", page |-> "", body |-> <<>>]

NoRequests ==
    [r \in Requests |->
        [pc |-> "idle", req |-> NoInbound, sent |-> NoSent, backend |-> NoBackend,
         response |-> NoResponse]]

\* ------------------------------------------------------------ construction
IdleTask ==
    [pc |-> "idle", target |-> "none", out |-> 0, payload |-> "",
     err |-> "none", at |-> "none"]

NoCache == [s \in Steps |-> [loaded |-> FALSE, value |-> NoVal]]
NoLock == [s \in Steps |-> 0]
NoTasks == [c \in Callers |-> IdleTask]
NoReplies == [c \in Callers |-> NoReply]
NoSeen == [c \in Callers |-> [s \in Steps |-> NoVal]]

\* Cloudflare.__init__: the configuration is read from the files written by
\* an earlier run (none on the first start); nothing is cached.
Init ==
    /\ app_url \in {"", BackendUrl}
    /\ cloudflare_cfg \in BOOLEAN
    /\ \E su \in {"", BackendUrl} :
         cloudflared_cfg =
             [info |-> [domain |-> InfoDomain, service_url |-> su],
              tunnel |-> Tunnel]
    /\ disk = cloudflared_cfg
    /\ cache = NoCache
    /\ lock = NoLock
    /\ task = NoTasks
    /\ reply = NoReplies
    /\ seen = NoSeen
    /\ calls = <<>>
    /\ boot = [epoch |-> 0, tunnel |-> Tunnel, after_failure |-> FALSE]
    /\ launch_pc = "init"
    /\ glo = "unset"
    /\ serving = FALSE
    /\ thread_pc = "none"
    /\ requests = NoRequests

\* ------------------------------------------------- async_cached_property
\* mutant: the stored value is never found
never_loaded(s) == FALSE

\* AsyncCachedPropertyDescriptor.already_loaded
already_loaded(s) == cache[s].loaded

\* where caller c resumes when the step s it awaited has returned: the caller
\* itself, or line 216 of cloudflared_thread, which awaits the steps in order
AfterStep(c, s) ==
    IF task[c].target = s THEN "done"
    ELSE CASE s = "tunnel" -> "connect_server"
           [] s = "connect_server" -> "dns_record"
           [] s = "dns_record" -> "cloudflared_thread_return"
           [] OTHER -> "done"

\* the body of step s returns v: load_value stores it, leaves the lock and
\* hands v to the awaiting caller; the body's local variables are gone
Returns(c, s, v) ==
    /\ cache' = [cache EXCEPT ![s] = [loaded |-> TRUE, value |-> v]]
    /\ lock' = [lock EXCEPT ![s] = 0]
    /\ seen' = [seen EXCEPT ![c][s] = v]
    /\ task' = [task EXCEPT ![c].pc = AfterStep(c, s), ![c].out = 0,
                            ![c].payload = ""]
    /\ reply' = [reply EXCEPT ![c] = NoReply]

\* the body of step s raises: every "async with" on the way out releases its
\* lock, nothing is stored, the caller's await raises
Raises(c, s, e) ==
    /\ lock' = [x \in Steps |-> IF lock[x] = c THEN 0 ELSE lock[x]]
    /\ task' = [task EXCEPT ![c].pc = "failed", ![c].err = e, ![c].at = s,
                            ![c].out = 0, ![c].payload = ""]
    /\ reply' = [reply EXCEPT ![c] = NoReply]
    /\ UNCHANGED <<cache, seen>>

\* a call as the log keeps it: who issued it, inside the await of which
\* property, the id it addresses, the status it is answered with, its payload
Call(op, c, arg, status, payload) ==
    [op |-> op, by |-> c,
     within |-> IF c \in Callers THEN task[c].target ELSE "_launcher",
     arg |-> arg, status |-> status, payload |-> payload]

\* a caller starts awaiting one of the four properties
Await(c, s) ==
    /\ task[c].pc = "idle"
    /\ task' = [task EXCEPT ![c].pc = s, ![c].target = s]
    /\ UNCHANGED <<cloudflared_cfg, disk, app_url, cloudflare_cfg, cache, lock,
                   reply, seen, calls, boot>>
    /\ UNCHANGED launchVars

\* awaiting a property whose value is stored returns the stored value
AwaitCached(c, s) ==
    /\ task[c].pc = s
    /\ already_loaded(s)
    /\ seen' = [seen EXCEPT ![c][s] = cache[s].value]
    /\ task' = [task EXCEPT ![c].pc = AfterStep(c, s)]
    /\ UNCHANGED <<cloudflared_cfg, disk, app_url, cloudflare_cfg, cache, lock,
                   reply, calls, boot>>
    /\ UNCHANGED launchVars

\* a caller whose await has returned may await a property again
AwaitAgain(c) ==
    /\ task[c].pc = "done"
    /\ task' = [task EXCEPT ![c] = IdleTask]
    /\ UNCHANGED <<cloudflared_cfg, disk, app_url, cloudflare_cfg, cache, lock,
                   reply, seen, calls, boot>>
    /\ UNCHANGED launchVars

\* load_value may run the body: nothing stored and the lock is free
MayLoad(c, s) ==
    /\ task[c].pc = s
    /\ ~already_loaded(s)
    /\ lock[s] = 0

\* ------------------------------------------------------------ 4.1 tunnel
\* mutant: the persisted Tunnel is not looked at
TunnelIdAlwaysEmpty == TRUE

\* line 96: if self.cloudflared_cfg.tunnel.id == ""
TunnelIdIsEmpty == cloudflared_cfg.tunnel.id = ""

\* a name that starts with another
StartsWith(long, short) ==
    Len(long) >= Len(short) /\ SubSeq(long, 1, Len(short)) = short

\* mutant: the entry's name only has to contain the requested name
TunnelNameContains(item_name, name) == StartsWith(item_name, name)

\* line 122: item["domain_name"] == name
TunnelNameMatches(item_name, name) == item_name = name

\* mutant: when no name matches, the first entry of the listing is taken
TunnelScanOrFirst(list, name) ==
    LET hits == {i \in 1 .. Len(list) : TunnelNameMatches(list[i].name, name)}
    IN  IF hits = {}
        THEN (IF Len(list) > 0 THEN 1 ELSE 0)
        ELSE CHOOSE i \in hits : \A j \in hits : i <= j

\* lines 120-125: the first entry of the listing whose name matches, 0 if none
TunnelScan(list, name) ==
    LET hits == {i \in 1 .. Len(list) : TunnelNameMatches(list[i].name, name)}
    IN  IF hits = {} THEN 0 ELSE CHOOSE i \in hits : \A j \in hits : i <= j

\* mutant: the Tunnel is kept in memory and not written
KeepTunnelInMemory(t) ==
    /\ cloudflared_cfg' = [cloudflared_cfg EXCEPT !.tunnel = t]
    /\ disk' = disk

\* mutant: the Tunnel is written to the file and not assigned in memory
WriteTunnelOnly(t) ==
    /\ cloudflared_cfg' = cloudflared_cfg
    /\ disk' = [cloudflared_cfg EXCEPT !.tunnel = t]

\* lines 108-109 and 128-129: self.cloudflared_cfg.tunnel = tunnel; write()
PersistTunnel(t) ==
    /\ cloudflared_cfg' = [cloudflared_cfg EXCEPT !.tunnel = t]
    /\ disk' = cloudflared_cfg'

\* lines 93-104 and 132-134
tunnel(c) ==
    /\ MayLoad(c, "tunnel")
    /\ IF TunnelIdIsEmpty
       THEN \E st \in TunnelPostStatuses, res \in CreatedResults :
              /\ calls' = Append(calls, Call("tunnel_post", c, "", st, ""))
              /\ reply' = [reply EXCEPT ![c] =
                     [NoReply EXCEPT !.status = st,
                                     !.result = IF st = 200 THEN res ELSE NoMeta]]
              /\ lock' = [lock EXCEPT !["tunnel"] = c]
              /\ task' = [task EXCEPT ![c].pc = "tunnel_post"]
              /\ UNCHANGED <<cache, seen>>
       ELSE /\ Returns(c, "tunnel", TunnelVal(cloudflared_cfg.tunnel))
            /\ UNCHANGED calls
    /\ UNCHANGED <<cloudflared_cfg, disk, app_url, cloudflare_cfg, boot>>
    /\ UNCHANGED launchVars

\* lines 105-119: the create POST has answered
tunnel_post(c) ==
    /\ task[c].pc = "tunnel_post"
    /\ CASE reply[c].status = 200 ->
              LET meta == reply[c].result
                  t == [name |-> TunnelName, id |-> meta.id,
                        token |-> meta.token, meta |-> meta]
              IN  /\ PersistTunnel(t)
                  /\ Returns(c, "tunnel", TunnelVal(t))
                  /\ UNCHANGED calls
         [] reply[c].status = 409 ->
              \E l \in Listings(TunnelItems) :
                /\ calls' = Append(calls, Call("tunnel_get", c, "", 200, ""))
                /\ reply' = [reply EXCEPT ![c] = [NoReply EXCEPT !.status = 200, !.list = l]]
                /\ task' = [task EXCEPT ![c].pc = "tunnel_get"]
                /\ UNCHANGED <<cloudflared_cfg, disk, cache, lock, seen>>
         [] OTHER ->
              \* neither branch is taken: the coroutine ends and returns None
              /\ Returns(c, "tunnel", NoneVal)
              /\ UNCHANGED <<cloudflared_cfg, disk, calls>>
    /\ UNCHANGED <<app_url, cloudflare_cfg, boot>>
    /\ UNCHANGED launchVars

\* lines 119-131: the listing has answered; meta stays None when nothing
\* matches and meta["id"] raises TypeError
tunnel_get(c) ==
    /\ task[c].pc = "tunnel_get"
    /\ LET i == TunnelScan(reply[c].list, TunnelName)
       IN  IF i = 0
           THEN /\ Raises(c, "tunnel", "TypeError")
                /\ UNCHANGED <<cloudflared_cfg, disk, calls>>
           ELSE LET meta == reply[c].list[i]
                    t == [name |-> TunnelName, id |-> meta.id,
                          token |-> CliToken(meta.id), meta |-> meta]
                IN  /\ calls' = Append(calls, Call("cli_token", c, meta.id, 0, ""))
                    /\ PersistTunnel(t)
                    /\ Returns(c, "tunnel", TunnelVal(t))
    /\ UNCHANGED <<app_url, cloudflare_cfg, boot>>
    /\ UNCHANGED launchVars

\* ---------------------------------------------------- 4.2 connect_server
\* lines 138-145: an empty service_url is replaced by
\* getattr(self.app, "url", self.url)
ServiceUrl ==
    IF cloudflared_cfg.info.service_url = ""
    THEN app_url
    ELSE cloudflared_cfg.info.service_url

\* line 162: self.tunnel.id reads the property without awaiting it: the stored
\* Tunnel's id when one is stored, AttributeError otherwise (an un-awaited
\* property, or a stored None)
TunnelIdReadable ==
    already_loaded("tunnel") /\ cache["tunnel"].value.kind = "Tunnel"

\* lines 137-165
connect_server(c) ==
    /\ MayLoad(c, "connect_server")
    /\ cloudflared_cfg' = [cloudflared_cfg EXCEPT !.info.service_url = ServiceUrl]
    /\ IF TunnelIdReadable
       THEN \E st \in PutStatuses :
              /\ calls' = Append(calls,
                     Call("ingress_put", c, cache["tunnel"].value.tunnel.id, st,
                          ServiceUrl))
              /\ reply' = [reply EXCEPT ![c] = [NoReply EXCEPT !.status = st]]
              /\ lock' = [lock EXCEPT !["connect_server"] = c]
              /\ task' = [task EXCEPT ![c].pc = "connect_server_put"]
              /\ UNCHANGED <<cache, seen>>
       ELSE /\ Raises(c, "connect_server", "AttributeError")
            /\ UNCHANGED calls
    /\ UNCHANGED <<disk, app_url, cloudflare_cfg, boot>>
    /\ UNCHANGED launchVars

\* lines 166-171: only status 400 raises; every other status returns out
connect_server_put(c) ==
    /\ task[c].pc = "connect_server_put"
    /\ IF reply[c].status = 400
       THEN Raises(c, "connect_server", "RuntimeError")
       ELSE Returns(c, "connect_server", ResponseVal(reply[c].status))
    /\ UNCHANGED <<cloudflared_cfg, disk, app_url, cloudflare_cfg, calls, boot>>
    /\ UNCHANGED launchVars

\* -------------------------------------------------------- 4.3 dns_record
\* mutant: the record's name only has to contain the domain
DnsNameContains(item_name, name) == StartsWith(item_name, name)

\* line 200: item["domain_name"] == name
DnsNameMatches(item_name, name) == item_name = name

\* mutant: when no name matches, the first record of the listing is taken
DnsScanOrFirst(list, name) ==
    LET hits == {i \in 1 .. Len(list) : DnsNameMatches(list[i].name, name)}
    IN  IF hits = {}
        THEN (IF Len(list) > 0 THEN 1 ELSE 0)
        ELSE CHOOSE i \in hits : \A j \in hits : i <= j

\* lines 197-203
DnsScan(list, name) ==
    LET hits == {i \in 1 .. Len(list) : DnsNameMatches(list[i].name, name)}
    IN  IF hits = {} THEN 0 ELSE CHOOSE i \in hits : \A j \in hits : i <= j

\* line 188: out.status == 400 and out.body["errors"][0]["code"] == 81053
IsAlreadyExists(r) == r.status = 400 /\ r.code = AlreadyExists

\* lines 174-187: name and content are read from self.cloudflare_cfg, which
\* cloudflare_api.py never assigns (line 80 assigns cloudflared_cfg): the read
\* raises AttributeError unless a base class outside this file provides it
dns_record(c) ==
    /\ MayLoad(c, "dns_record")
    /\ IF cloudflare_cfg
       THEN \E rp \in DnsPostReplies :
              /\ calls' = Append(calls,
                     Call("dns_post", c, "", rp[1], cloudflared_cfg.tunnel.id))
              /\ reply' = [reply EXCEPT ![c] =
                     [NoReply EXCEPT !.status = rp[1], !.code = rp[2]]]
              /\ lock' = [lock EXCEPT !["dns_record"] = c]
              /\ task' = [task EXCEPT ![c].pc = "dns_record_post",
                                      ![c].out = rp[1],
                                      ![c].payload = cloudflared_cfg.tunnel.id]
              /\ UNCHANGED <<cache, seen>>
       ELSE /\ Raises(c, "dns_record", "AttributeError")
            /\ UNCHANGED calls
    /\ UNCHANGED <<cloudflared_cfg, disk, app_url, cloudflare_cfg, boot>>
    /\ UNCHANGED launchVars

\* lines 188-196 and 210-212: the record POST has answered
dns_record_post(c) ==
    /\ task[c].pc = "dns_record_post"
    /\ IF IsAlreadyExists(reply[c])
       THEN \E l \in Listings(DnsItems) :
              /\ calls' = Append(calls, Call("dns_get", c, "", 200, ""))
              /\ reply' = [reply EXCEPT ![c] = [NoReply EXCEPT !.status = 200, !.list = l]]
              /\ task' = [task EXCEPT ![c].pc = "dns_record_get"]
              /\ UNCHANGED <<cache, lock, seen>>
       ELSE /\ Returns(c, "dns_record", ResponseVal(task[c].out))
            /\ UNCHANGED calls
    /\ UNCHANGED <<cloudflared_cfg, disk, app_url, cloudflare_cfg, boot>>
    /\ UNCHANGED launchVars

\* lines 196-208: the listing has answered
dns_record_get(c) ==
    /\ task[c].pc = "dns_record_get"
    /\ LET i == DnsScan(reply[c].list, InfoDomain)
       IN  IF i = 0
           THEN /\ Raises(c, "dns_record", "RuntimeError")
                /\ UNCHANGED calls
           ELSE \E st \in PatchStatuses :
                  /\ calls' = Append(calls,
                         Call("dns_patch", c, reply[c].list[i].id, st,
                              task[c].payload))
                  /\ reply' = [reply EXCEPT ![c] = [NoReply EXCEPT !.status = st]]
                  /\ task' = [task EXCEPT ![c].pc = "dns_record_patch"]
                  /\ UNCHANGED <<cache, lock, seen>>
    /\ UNCHANGED <<cloudflared_cfg, disk, app_url, cloudflare_cfg, boot>>
    /\ UNCHANGED launchVars

\* lines 209-212: the PATCH has answered; its status is not looked at and the
\* POST's reply is returned
dns_record_patch(c) ==
    /\ task[c].pc = "dns_record_patch"
    /\ Returns(c, "dns_record", ResponseVal(task[c].out))
    /\ UNCHANGED <<cloudflared_cfg, disk, app_url, cloudflare_cfg, calls, boot>>
    /\ UNCHANGED launchVars

\* ------------------------------------------------ 4.4 cloudflared_thread
\* lines 214-216: the body starts and awaits self.tunnel
cloudflared_thread(c) ==
    /\ MayLoad(c, "cloudflared_thread")
    /\ lock' = [lock EXCEPT !["cloudflared_thread"] = c]
    /\ task' = [task EXCEPT ![c].pc = "tunnel"]
    /\ UNCHANGED <<cloudflared_cfg, disk, app_url, cloudflare_cfg, cache, reply,
                   seen, calls, boot>>
    /\ UNCHANGED launchVars

\* lines 218-224: the three awaits have returned; the ManagedThread is built
\* (not started) and returned
cloudflared_thread_return(c) ==
    /\ task[c].pc = "cloudflared_thread_return"
    /\ Returns(c, "cloudflared_thread", ThreadVal)
    /\ thread_pc' = "created"
    /\ UNCHANGED <<cloudflared_cfg, disk, app_url, cloudflare_cfg, calls, boot>>
    /\ UNCHANGED <<launch_pc, glo, serving, requests>>

\* the package's cloudflared(command, headless=...): the exit code of the
\* command it runs
CliExitCodes == {0, 1}

\* a command that fails is logged by cloudflared(); nothing is raised
cloudflared_raises(code) == FALSE

\* lines 219-221: the thread's function runs "cloudflared tunnel info <id>"
_launcher_info ==
    /\ thread_pc = "started"
    /\ \E code \in CliExitCodes :
          /\ calls' = Append(calls,
                 Call("cli_info", 0, cloudflared_cfg.tunnel.id, code, ""))
          /\ thread_pc' = IF cloudflared_raises(code) THEN "failed" ELSE "info"
    /\ UNCHANGED <<cloudflared_cfg, disk, app_url, cloudflare_cfg, cache, lock,
                   task, reply, seen, boot, launch_pc, glo, serving, requests>>

\* mutant: the tunnel's id is passed where the token belongs
_launcher_run_with_id ==
    /\ thread_pc = "info"
    /\ calls' = Append(calls, Call("cli_run", 0, cloudflared_cfg.tunnel.id, 0, ""))
    /\ thread_pc' = "run"
    /\ UNCHANGED <<cloudflared_cfg, disk, app_url, cloudflare_cfg, cache, lock,
                   task, reply, seen, boot, launch_pc, glo, serving, requests>>

\* line 222: "cloudflared tunnel run --token <token>"
_launcher_run ==
    /\ thread_pc = "info"
    /\ calls' = Append(calls, Call("cli_run", 0, cloudflared_cfg.tunnel.token, 0, ""))
    /\ thread_pc' = "run"
    /\ UNCHANGED <<cloudflared_cfg, disk, app_url, cloudflare_cfg, cache, lock,
                   task, reply, seen, boot, launch_pc, glo, serving, requests>>

\* --------------------------------------------------------- Gateway.launch
\* lines 122-123: loc = self.thread; glo = self.cloudflared_thread.  The
\* property is read, not awaited: a proxy of the stored thread when one is
\* stored, else an awaitable that nothing awaits
launch ==
    /\ launch_pc = "init"
    /\ glo' = IF already_loaded("cloudflared_thread") THEN "proxy" ELSE "awaitable"
    /\ launch_pc' = "got"
    /\ UNCHANGED provisionVars
    /\ UNCHANGED <<serving, thread_pc, requests>>

\* line 124: loc.start()
launch_loc_start ==
    /\ launch_pc = "got"
    /\ serving' = TRUE
    /\ launch_pc' = "loc_started"
    /\ UNCHANGED provisionVars
    /\ UNCHANGED <<glo, thread_pc, requests>>

\* line 125: glo.start(): starts the stored thread through the proxy; the bare
\* awaitable has no start and the call raises AttributeError
launch_glo_start ==
    /\ launch_pc = "loc_started"
    /\ IF glo = "proxy"
       THEN launch_pc' = "done" /\ thread_pc' = "started"
       ELSE launch_pc' = "failed" /\ UNCHANGED thread_pc
    /\ UNCHANGED provisionVars
    /\ UNCHANGED <<glo, serving, requests>>

\* -------------------------------------------------------- Gateway.forward
\* line 64: url = f"{self.app.url}/{path}"
ForwardUrl(path) == BackendUrl \o "/" \o path

\* request.url.path of the route "/{path:path}"
UrlPath(path) == "/" \o path

\* mutant: the names are compared as they were sent, not lower-cased
ForwardedHeadersExact(h) ==
    [k \in {x \in DOMAIN h : x \notin {"host", "content-length"}} |-> h[k]]

\* line 72: the inbound headers without host and content-length
ForwardedHeaders(h) ==
    [k \in {x \in DOMAIN h : Lower(x) \notin {"host", "content-length"}} |-> h[k]]

\* mutant: the backend's headers are dropped, only the forced two are sent
CleanHeadersOnlyForced(h) ==
    [k \in {"Connection", "Keep-Alive"} |->
        IF k = "Connection" THEN "keep-alive" ELSE "timeout=60, max=1000"]

\* lines 78-85: the backend's headers without the four transport headers, then
\* Connection and Keep-Alive set
CleanHeaders(h) ==
    LET kept == {x \in DOMAIN h :
                    Lower(x) \notin {"content-encoding", "transfer-encoding",
                                     "content-length", "connection"}}
    IN  [k \in kept \cup {"Connection", "Keep-Alive"} |->
            CASE k = "Connection" -> "keep-alive"
              [] k = "Keep-Alive" -> "timeout=60, max=1000"
              [] OTHER -> h[k]]

\* lines 96-101: HTMLResponse(self.popup_404(message=...), status_code=404)
NotFoundPage(path) ==
    [status |-> 404, headers |-> NoHeaders, media |-> "text/html",
     page |-> "popup_404",
     body |-> <<"The page '", UrlPath(path), "' could not be found.">>]

\* lines 107-113: HTMLResponse(self.popup_error(error_code=500, ...), 500)
ErrorPage ==
    [status |-> 500, headers |-> NoHeaders, media |-> "text/html",
     page |-> "popup_error",
     body |-> <<"An unexpected error occurred while processing your request.">>]

\* mutant: a 404 of the backend is not singled out
IsNeverNotFound(status) == FALSE

\* line 95: if response.status_code == 404
IsNotFound(status) == status = 404

\* lines 77-103: the response built from the backend's
ForwardResponse(path, resp) ==
    IF IsNotFound(resp.status)
    THEN NotFoundPage(path)
    ELSE [status |-> resp.status, headers |-> CleanHeaders(resp.headers),
          media |-> "", page |-> "", body |-> <<resp.content>>]

\* lines 63-76: a request arrives while the server runs and is sent on to the
\* backend; the handler waits for the answer
forward(r, req) ==
    /\ serving
    /\ requests[r].pc = "idle"
    /\ requests' = [requests EXCEPT
           ![r].pc = "awaiting",
           ![r].req = req,
           ![r].sent = [method |-> req.method, url |-> ForwardUrl(req.path),
                        headers |-> ForwardedHeaders(req.headers),
                        params |-> req.query, content |-> req.body]]
    /\ UNCHANGED provisionVars
    /\ UNCHANGED <<launch_pc, glo, serving, thread_pc>>

\* lines 77-103: the backend has answered
forward_response(r, resp) ==
    /\ requests[r].pc = "awaiting"
    /\ requests' = [requests EXCEPT
           ![r].pc = "responded",
           ![r].backend = [status |-> resp.status, headers |-> resp.headers,
                           content |-> resp.content, error |-> "none"],
           ![r].response = ForwardResponse(requests[r].req.path, resp)]
    /\ UNCHANGED provisionVars
    /\ UNCHANGED <<launch_pc, glo, serving, thread_pc>>

\* mutant: the exception leaves the handler, no response is built
forward_error_unhandled(r, e) ==
    /\ requests[r].pc = "awaiting"
    /\ requests' = [requests EXCEPT
           ![r].pc = "crashed",
           ![r].backend = [NoBackend EXCEPT !.error = e]]
    /\ UNCHANGED provisionVars
    /\ UNCHANGED <<launch_pc, glo, serving, thread_pc>>

\* lines 105-113: the forward raised
forward_error(r, e) ==
    /\ requests[r].pc = "awaiting"
    /\ requests' = [requests EXCEPT
           ![r].pc = "responded",
           ![r].backend = [NoBackend EXCEPT !.error = e],
           ![r].response = ErrorPage]
    /\ UNCHANGED provisionVars
    /\ UNCHANGED <<launch_pc, glo, serving, thread_pc>>

\* ---------------------------------------------------------------- restart
\* the process ends and is started again: the files keep what write() stored
LaterStepFailed ==
    \E c \in Callers :
        task[c].pc = "failed" /\ task[c].at \in {"connect_server", "dns_record"}

Restart ==
    /\ boot.epoch < MaxRestarts
    /\ cloudflared_cfg' = disk
    /\ cache' = NoCache
    /\ lock' = NoLock
    /\ task' = NoTasks
    /\ reply' = NoReplies
    /\ seen' = NoSeen
    /\ calls' = <<>>
    /\ boot' = [epoch |-> boot.epoch + 1, tunnel |-> cloudflared_cfg.tunnel,
                after_failure |-> LaterStepFailed]
    /\ launch_pc' = "init"
    /\ glo' = "unset"
    /\ serving' = FALSE
    /\ thread_pc' = "none"
    /\ UNCHANGED <<disk, app_url, cloudflare_cfg, requests>>

\* one step of caller c
CallerStep(c) ==
    \/ \E s \in Steps : Await(c, s)
    \/ \E s \in Steps : AwaitCached(c, s)
    \/ tunnel(c)
    \/ tunnel_post(c)
    \/ tunnel_get(c)
    \/ connect_server(c)
    \/ connect_server_put(c)
    \/ dns_record(c)
    \/ dns_record_post(c)
    \/ dns_record_get(c)
    \/ dns_record_patch(c)
    \/ cloudflared_thread(c)
    \/ cloudflared_thread_return(c)

\* start-up: one task awaits the properties, again and again; Gateway.launch
\* runs; the process may be restarted
Next ==
    \/ CallerStep(StartupCaller)
    \/ AwaitAgain(StartupCaller)
    \/ _launcher_info
    \/ _launcher_run
    \/ launch
    \/ launch_loc_start
    \/ launch_glo_start
    \/ Restart

Spec == Init /\ [][Next]_vars

\* concurrent callers of the properties within one process
NextCallers == \E c \in Callers : CallerStep(c)

\* the object is a Gateway's: Gateway.__init__ has stored the service url
InitCallers ==
    /\ Init
    /\ cloudflared_cfg.info.service_url = BackendUrl
    /\ app_url = BackendUrl

SpecCallers == InitCallers /\ [][NextCallers]_vars

\* the gateway's serving loop with one request at a time
NextGateway ==
    \/ launch
    \/ launch_loc_start
    \/ \E req \in InboundRequests : forward(1, req)
    \/ \E resp \in BackendResponses : forward_response(1, resp)
    \/ \E e \in TransportErrors : forward_error(1, e)

SpecGateway == Init /\ [][NextGateway]_vars

\* the serving loop with several requests in flight at once: each handler is
\* a coroutine of the server's event loop, suspended at its await of the
\* backend call (line 69)
ServingInbound ==
    {req \in InboundRequests :
        req.method = "GET" /\ req.path = "foo" /\ req.query = ""
        /\ req.headers = NoHeaders}
ServingResponses == {resp \in BackendResponses : resp.headers = NoHeaders}

\* lines 69-76: the awaited backend call of request r ends, with a response
\* or with an exception
BackendAnswers(r) ==
    \/ \E resp \in ServingResponses : forward_response(r, resp)
    \/ \E e \in TransportErrors : forward_error(r, e)

NextServing ==
    \/ launch
    \/ launch_loc_start
    \/ \E r \in Requests : \E req \in ServingInbound : forward(r, req)
    \/ \E r \in Requests : BackendAnswers(r)

\* an awaited backend call ends (the client's request returns or raises) and
\* the event loop resumes the handler that waits for it
SpecServing ==
    /\ Init
    /\ [][NextServing]_vars
    /\ \A r \in Requests : WF_vars(BackendAnswers(r))

\* ================================================================ claims
CallsOf(op) == {i \in 1 .. Len(calls) : calls[i].op = op}

\* the calls issued inside an await of cloudflared_thread: the start-up trace
StartupCallsOf(op) == {i \in CallsOf(op) : calls[i].within = "cloudflared_thread"}

ProvisioningFinished ==
    \/ \A s \in {"tunnel", "connect_server", "dns_record"} : already_loaded(s)
    \/ task[StartupCaller].pc = "failed"

\* C2: the gateway's serving thread is not started before the three
\* provisioning steps have finished or failed.
C2_ServeAfterProvisioning == serving => ProvisioningFinished

\* the outcome of each provisioning step is a success
TunnelSucceeded ==
    already_loaded("tunnel") /\ cache["tunnel"].value.kind = "Tunnel"
IngressSucceeded ==
    already_loaded("connect_server") /\ cache["connect_server"].value.status = 200
DnsSucceeded ==
    /\ already_loaded("dns_record")
    /\ \/ cache["dns_record"].value.status = 200
       \/ \E i \in CallsOf("dns_patch") : calls[i].status = 200

Leaves(c, p) == task[c].pc = p /\ task'[c].pc # p /\ boot' = boot

NetworkOps == {"tunnel_post", "tunnel_get", "cli_token"}

\* C4: with a persisted Tunnel whose id is not empty, awaiting the tunnel step
\* issues no call, leaves the Tunnel in memory and on disk as it is and
\* returns exactly that Tunnel, on a first call (after a restart) and on any
\* later one.
C4_TunnelIdempotent ==
    [][\A c \in Callers :
          (Leaves(c, "tunnel") /\ cloudflared_cfg.tunnel.id # "") =>
              /\ calls' = calls
              /\ cloudflared_cfg' = cloudflared_cfg
              /\ disk' = disk
              /\ task'[c].pc # "failed"
              /\ seen'[c]["tunnel"] = TunnelVal(cloudflared_cfg.tunnel)]_vars

\* a restarted process got the persisted Tunnel from the tunnel step, twice,
\* without a network call
C4_Witness ==
    /\ boot.epoch > 0
    /\ boot.tunnel.id # ""
    /\ seen[StartupCaller]["tunnel"] = TunnelVal(boot.tunnel)
    /\ seen[StartupCaller]["cloudflared_thread"] = ThreadVal
    /\ task[StartupCaller].pc = "done"
    /\ task[StartupCaller].target = "tunnel"
    /\ \A i \in 1 .. Len(calls) : calls[i].op \notin NetworkOps

\* the positions inside the body of each step
BodyPositions(s) ==
    CASE s = "tunnel" -> {"tunnel_post", "tunnel_get"}
      [] s = "connect_server" -> {"connect_server_put"}
      [] s = "dns_record" -> {"dns_record_post", "dns_record_get", "dns_record_patch"}
      [] OTHER -> {"tunnel", "tunnel_post", "tunnel_get", "connect_server",
                   "connect_server_put", "dns_record", "dns_record_post",
                   "dns_record_get", "dns_record_patch",
                   "cloudflared_thread_return"}

InBody(c, s) ==
    /\ task[c].pc \in BodyPositions(s)
    /\ s = "cloudflared_thread" => task[c].target = "cloudflared_thread"

FailedAt(s) == {c \in Callers : task[c].pc = "failed" /\ task[c].at = s}

\* C5 as stated: whatever the callers do, the tunnel create POST is issued at
\* most once in a process.
C5_AtMostOneCreate == Cardinality(CallsOf("tunnel_post")) <= 1

\* C5 amended: at most one caller is inside the body of a step at a time; the
\* callers whose await of a step returned all got the value stored for it; and
\* a step's first call is issued once, plus once for every execution of the
\* step that raised.
C5_ComputeOnce ==
    /\ \A s \in Steps : Cardinality({c \in Callers : InBody(c, s)}) <= 1
    /\ \A s \in Steps, c \in Callers :
          seen[c][s] # NoVal => already_loaded(s) /\ seen[c][s] = cache[s].value
    /\ Cardinality(CallsOf("tunnel_post")) <= 1 + Cardinality(FailedAt("tunnel"))
    /\ Cardinality(CallsOf("ingress_put")) <= 1 + Cardinality(FailedAt("connect_server"))
    /\ Cardinality(CallsOf("dns_post")) <= 1 + Cardinality(FailedAt("dns_record"))

\* two callers awaited the tunnel step and got the one created Tunnel
C5_Witness ==
    /\ \A c \in Callers : seen[c]["tunnel"].kind = "Tunnel"
    /\ Cardinality(CallsOf("tunnel_post")) = 1
    /\ \E c \in Callers : task[c].target = "cloudflared_thread"

ExactEntries(list, name) == {i \in 1 .. Len(list) : list[i].name = name}

\* C6: when the create POST was answered 409 and the listing holds an entry
\* whose name equals the requested name, the tunnel step returns, without
\* raising, a Tunnel with that entry's id and persists it; and once a listed
\* tunnel is adopted no create POST is issued any more.
C6_ConflictAdoption ==
    [][/\ \A c \in Callers :
             (Leaves(c, "tunnel_get")
                 /\ ExactEntries(reply[c].list, TunnelName) # {}) =>
                 \E i \in ExactEntries(reply[c].list, TunnelName) :
                    /\ task'[c].pc # "failed"
                    /\ seen'[c]["tunnel"].kind = "Tunnel"
                    /\ seen'[c]["tunnel"].tunnel.id = reply[c].list[i].id
                    /\ seen'[c]["tunnel"].tunnel.name = TunnelName
                    /\ cloudflared_cfg'.tunnel = seen'[c]["tunnel"].tunnel
                    /\ disk'.tunnel = seen'[c]["tunnel"].tunnel
       /\ (cloudflared_cfg.tunnel.id \in {t.id : t \in TunnelItems} /\ boot' = boot) =>
             \A i \in 1 .. Len(calls') : i > Len(calls) => calls'[i].op # "tunnel_post"
      ]_vars

\* after a 409 the listed tunnel t2 was adopted, persisted and returned
C6_Witness ==
    /\ seen[StartupCaller]["tunnel"].tunnel.id = "t2"
    /\ cloudflared_cfg.tunnel.id = "t2"
    /\ disk.tunnel.id = "t2"
    /\ \E i \in CallsOf("tunnel_post") : calls[i].status = 409
    /\ \E i \in CallsOf("cli_token") : calls[i].arg = "t2"
    /\ Cardinality(CallsOf("tunnel_post")) = 1

Responded(r) == requests[r].pc = "responded"

TransportHeaders ==
    {"content-encoding", "transfer-encoding", "content-length", "connection"}

\* C9: whatever status the backend returned, the response's headers hold none
\* of the four transport headers of the backend and hold Connection: keep-alive.
C9_HeaderScrubbing ==
    \A r \in Requests :
        (Responded(r) /\ requests[r].backend.error = "none") =>
            LET h == requests[r].response.headers
            IN  /\ \A k \in DOMAIN h :
                      Lower(k) \in TransportHeaders =>
                          k = "Connection" /\ h[k] = "keep-alive"
                /\ "Connection" \in DOMAIN h
                /\ h["Connection"] = "keep-alive"

\* the parts of a page's body
Names(body, text) == \E i \in 1 .. Len(body) : body[i] = text

\* C10: a 404 of the backend gives a response of status 404 whose HTML body
\* names the requested path; an error raised by the forward gives a response
\* of status 500 with an HTML error body.
C10_ErrorTranslation ==
    \A r \in Requests :
        Responded(r) =>
            /\ requests[r].backend.status = 404 =>
                  /\ requests[r].response.status = 404
                  /\ requests[r].response.media = "text/html"
                  /\ requests[r].response.page = "popup_404"
                  /\ Names(requests[r].response.body, UrlPath(requests[r].req.path))
            /\ requests[r].backend.error # "none" =>
                  /\ requests[r].response.status = 500
                  /\ requests[r].response.media = "text/html"
                  /\ requests[r].response.page = "popup_error"

\* the backend answered 404 to a request for /a/b and the page names /a/b
C10_Witness ==
    \E r \in Requests :
        /\ Responded(r)
        /\ requests[r].backend.status = 404
        /\ requests[r].req.path = "a/b"
        /\ Names(requests[r].response.body, "/a/b")

ForcedHeaders == {"Connection", "Keep-Alive"}

\* C11: a backend response whose status is neither 404 nor 500 is passed
\* through: the response has the backend's status and body, every backend
\* header that is not a transport header is kept with its value, and the only
\* headers added are Connection and Keep-Alive.
C11_PassThrough ==
    \A r \in Requests :
        (/\ Responded(r)
         /\ requests[r].backend.error = "none"
         /\ requests[r].backend.status \notin {404, 500}) =>
            LET b == requests[r].backend
                h == requests[r].response.headers
            IN  /\ requests[r].response.status = b.status
                /\ requests[r].response.body = <<b.content>>
                /\ requests[r].response.page = ""
                /\ \A k \in DOMAIN b.headers :
                      (Lower(k) \notin TransportHeaders /\ k \notin ForcedHeaders) =>
                          k \in DOMAIN h /\ h[k] = b.headers[k]
                /\ \A k \in DOMAIN h :
                      k \notin ForcedHeaders =>
                          /\ k \in DOMAIN b.headers
                          /\ Lower(k) \notin TransportHeaders
                          /\ h[k] = b.headers[k]

\* the backend answered 204 with Set-Cookie and content-encoding
C11_Witness ==
    \E r \in Requests :
        /\ Responded(r)
        /\ requests[r].backend.error = "none"
        /\ requests[r].backend.status = 204
        /\ DOMAIN requests[r].backend.headers = {"Set-Cookie", "content-encoding"}
        /\ DOMAIN requests[r].response.headers =
               {"Set-Cookie", "Connection", "Keep-Alive"}

\* C12: the request sent to the backend carries the inbound headers without
\* Host and Content-Length, whatever their case, every other header with its
\* value, and the inbound method, query parameters and body; its URL is the
\* backend URL followed by "/" and the path.
C12_RequestForwarding ==
    \A r \in Requests :
        requests[r].pc # "idle" =>
            LET q == requests[r].req
                s == requests[r].sent
                kept == {k \in DOMAIN q.headers :
                            Lower(k) \notin {"host", "content-length"}}
            IN  /\ DOMAIN s.headers = kept
                /\ \A k \in kept : s.headers[k] = q.headers[k]
                /\ s.method = q.method
                /\ s.params = q.query
                /\ s.content = q.body
                /\ s.url = BackendUrl \o "/" \o q.path

\* a POST with Host and Authorization was forwarded with Authorization only
C12_Witness ==
    \E r \in Requests :
        /\ requests[r].pc = "awaiting"
        /\ requests[r].req.method = "POST"
        /\ requests[r].req.query = "q=1"
        /\ DOMAIN requests[r].req.headers = {"Host", "Authorization"}
        /\ DOMAIN requests[r].sent.headers = {"Authorization"}
        /\ requests[r].sent.headers["Authorization"] = "Bearer s3"

\* a request that is not yet received can be received
CanAccept(r) == ENABLED (\E req \in ServingInbound : forward(r, req))

\* C13: with several requests in flight, every request that was received gets
\* a response, and gets one only: the response of an answered request never
\* changes.  A step of one request changes no other request and never stops
\* the server, and while the server runs a new request is accepted whatever
\* the other requests wait for.
C13_PerRequestIsolation ==
    /\ \A r \in Requests : (requests[r].pc = "awaiting") ~> Responded(r)
    /\ [](\A r \in Requests : (serving /\ requests[r].pc = "idle") => CanAccept(r))
    /\ [][/\ \A r \in Requests : Responded(r) => requests'[r] = requests[r]
          /\ \A r \in Requests :
                Responded(r)' =>
                    \/ requests'[r].response = ErrorPage
                    \/ requests'[r].response = NotFoundPage(requests'[r].req.path)
                    \/ requests'[r].response.status = requests'[r].backend.status
          /\ \A r1, r2 \in Requests :
                (r1 # r2 /\ requests'[r1] # requests[r1]) =>
                    requests'[r2] = requests[r2]
          /\ serving => serving']_vars

\* one request got the error page for a transport error while another one,
\* received too, still waits for the backend
C13_Witness ==
    \E r1, r2 \in Requests :
        /\ r1 # r2
        /\ Responded(r1)
        /\ requests[r1].backend.error = "ReadTimeout"
        /\ requests[r1].response = ErrorPage
        /\ requests[r2].pc = "awaiting"
        /\ serving

C15_TunnelProvisionError ==
    [][\A c \in Callers :
          (Leaves(c, "tunnel_post") /\ reply[c].status \notin {200, 409}) =>
              /\ task'[c].pc = "failed"
              /\ task'[c].at = "tunnel"
              /\ ~cache'["tunnel"].loaded
              /\ seen'[c]["tunnel"].kind = "unset"
              /\ disk' = disk
      ]_vars

\* C16: no ingress PUT is issued with an empty backend service URL: with no
\* stored service URL, no url of the app and no url argument, the ingress
\* step fails before the PUT.
C16_NoEmptyServiceUrl ==
    \A i \in CallsOf("ingress_put") : calls[i].payload # ""

TunnelStepActs(c) ==
    task[c].pc \in {"tunnel", "tunnel_post", "tunnel_get"} /\ task'[c] # task[c]

\* C20: the Tunnel, in memory and as persisted, is changed by steps of the
\* tunnel step only: the ingress push, the DNS step, the supervisor's thread
\* and every other step leave its name, id, token and meta as they were; and
\* once the persisted Tunnel has a non-empty id, no step changes that id.
C20_TunnelSoleWriter ==
    [][/\ (disk'.tunnel # disk.tunnel
              \/ cloudflared_cfg'.tunnel # cloudflared_cfg.tunnel) =>
              \E c \in Callers : TunnelStepActs(c)
       /\ disk.tunnel.id # "" =>
              /\ disk'.tunnel.id = disk.tunnel.id
              /\ cloudflared_cfg'.tunnel.id = disk.tunnel.id
      ]_vars

\* the adopted tunnel t2 is persisted, the ingress was pushed, the record was
\* patched and the supervisor's thread has launched "run"
C20_Witness ==
    /\ disk.tunnel.id = "t2"
    /\ CallsOf("ingress_put") # {}
    /\ CallsOf("dns_patch") # {}
    /\ thread_pc = "run"

\* the calls of a start-up and of the supervisor's thread that name a tunnel
TunnelAddressingCalls ==
    StartupCallsOf("ingress_put") \cup StartupCallsOf("dns_post")
        \cup StartupCallsOf("dns_patch") \cup CallsOf("cli_info")
        \cup CallsOf("cli_run")

\* the status of the process's latest create POST, 0 when none was issued
LastCreateStatus ==
    IF CallsOf("tunnel_post") = {}
    THEN 0
    ELSE calls[CHOOSE i \in CallsOf("tunnel_post") :
                   \A j \in CallsOf("tunnel_post") : j <= i].status

====
